---- MODULE Spec2Model ----
(***************************************************************************)
(* A model of dat2h5.py (samkohn/larpix-scripts): the conversion of a      *)
(* LArPix capture (.dat blocks or .lpx fixed 8-byte words) into one record *)
(* per data packet.                                                        *)
(*                                                                         *)
(* Two specifications:                                                     *)
(*   SpecFix  applies the pure function fix_lpx_timestamp_rollover to      *)
(*            inputs drawn from bounded sets;                              *)
(*   Spec     is the conversion pass: one action per iteration of the      *)
(*            `while True` loop of dat2h5.py, and the flush after it.      *)
(*                                                                         *)
(* Python values are represented as follows.  None / a missing dict key    *)
(* is the empty sequence <<>> and a present value v is <<v>>, or the key   *)
(* is simply absent from the DOMAIN of the function that models the dict.  *)
(***************************************************************************)
EXTENDS Integers, Sequences, FiniteSets, TLC

VARIABLES
    \* ---- SpecFix: one call of fix_lpx_timestamp_rollover ----
    fpc,                 \* "idle" | "args" | "returned"
    time,                \* argument `time`
    ref,                 \* argument `ref`
    time_nbit,           \* argument `time_nbit`
    late_packet_window,  \* argument `late_packet_window`
    fixed_time,          \* the value returned
    \* ---- SpecADC: one call of fix_ADC ----
    raw_adc,             \* argument `raw_adc`
    adc,                 \* the value returned
    \* ---- SpecWord: one call of extract_lpx_data ----
    lpx_word,            \* argument `word`: the 8 bytes of a .lpx word
    lpx_timestamp,       \* the value returned: `timestamp`
    lpx_packet_bytes,    \* the value returned: `packet_bytes`
    \* ---- Spec: the conversion pass ----
    pc,                  \* "idle" | "loop" | "done" | "error" (uncaught exception)
    infile_fmt,          \* ".dat" | ".lpx"
    use_root,            \* --format root
    n_skip,              \* --n_skip
    n_trans,             \* --n_trans: <<>> is None, <<n>> is n
    serialblock,         \* serial read index
    prev_timestamp,      \* lpx_loader.prev_timestamp
    at_eof,              \* lpx_loader.file has no byte left after a short last read
    chip_threshold,      \* chipid -> [trim: channel -> data, global: <<>> | <<data>>]
    last_timestamp,      \* chipid -> Timestamp (its ns)
    numpy_arrays,        \* the chunks; a chunk is the sequence of its rows written so far
    current_index,       \* row of the last chunk the next record is written to
    ttree,               \* the entries filled into the ROOT tree
    final_array,         \* <<>> until flushed; <<rows>> is the h5 dataset
    \* ---- history of the inputs, for stating the properties ----
    blocks,              \* the blocks next_block has returned, in order
    seen                 \* what the stream has carried so far (see SeenInit)

fixvars == <<fpc, time, ref, time_nbit, late_packet_window, fixed_time, raw_adc, adc,
             lpx_word, lpx_timestamp, lpx_packet_bytes>>
mainvars == <<pc, infile_fmt, use_root, n_skip, n_trans, serialblock, prev_timestamp, at_eof,
              chip_threshold, last_timestamp, numpy_arrays, current_index, ttree,
              final_array, blocks, seen>>
vars == <<fixvars, mainvars>>

\* no call of extract_lpx_data is being followed
WordIdle == lpx_word = <<>> /\ lpx_timestamp = 0 /\ lpx_packet_bytes = <<>>

(***************************************************************************)
(* Bounds of the model.                                                    *)
(***************************************************************************)
MaxTime == 12      \* SpecFix: `time` ranges over 0..MaxTime and a few 10-bit values
MaxRef == 40       \* SpecFix: `ref` ranges over 0..MaxRef and a few larger values
MaxWindow == 12    \* SpecFix: `late_packet_window` ranges over 1..MaxWindow and 20
MaxFrames == 3     \* Spec: blocks in the input file

None == <<>>
Some(v) == <<v>>

(***************************************************************************)
(* Pure functions of dat2h5.py.                                            *)
(***************************************************************************)
\* np.ceil(float(a) / b) for a >= 0, b > 0 (exact in float64 at these sizes)
CeilDiv(a, b) == (a + b - 1) \div b

\* a variant that rounds the rollover count down
fix_lpx_timestamp_rollover_floor(t, r, nbit, window) ==
    LET rollover_dt == 2 ^ nbit
        n_rollovers == IF r - t > 0 THEN (r - t) \div rollover_dt ELSE 0
    IN  IF r - t > 0 /\ r - t < 10 THEN -1 ELSE n_rollovers * rollover_dt + t

\* a variant that always counts one rollover
fix_lpx_timestamp_rollover_one(t, r, nbit, window) ==
    LET rollover_dt == 2 ^ nbit
        n_rollovers == IF r - t > 0 THEN CeilDiv(r - t, rollover_dt) ELSE 1
    IN  IF r - t > 0 /\ r - t < 10 THEN -1 ELSE n_rollovers * rollover_dt + t

\* dat2h5.py fix_lpx_timestamp_rollover(time, ref, time_nbit, late_packet_window):
\* the late test compares with the literal 10, whatever late_packet_window is.
fix_lpx_timestamp_rollover(t, r, nbit, window) ==
    LET rollover_dt == 2 ^ nbit
        n_rollovers == IF r - t > 0 THEN CeilDiv(r - t, rollover_dt) ELSE 0
    IN  IF r - t > 0 /\ r - t < 10 THEN -1 ELSE n_rollovers * rollover_dt + t

\* dat2h5.py fix_ADC: Python's // rounds toward minus infinity, as \div does
fix_ADC(w) == (w - 128) \div 2

\* bit i (from 0) of a bitarray(endian='little') filled from the bytes of `word`
Bit(word, i) == (word[(i \div 8) + 1] \div (2 ^ (i % 8))) % 2

RECURSIVE BitsValue(_, _, _)
\* the number whose binary digits are bits lo..hi of `word`, bit lo the lowest
BitsValue(word, lo, hi) ==
    IF lo > hi THEN 0 ELSE Bit(word, lo) + 2 * BitsValue(word, lo + 1, hi)

Min(a, b) == IF a < b THEN a ELSE b

\* (a split at the byte boundary 56 instead of bit 54)
extract_lpx_data_bytewise(word) ==
    LET nbits == 8 * Len(word) IN
    IF nbits <= 56
    THEN [raised |-> TRUE, timestamp |-> 0, packet_bytes |-> <<>>]
    ELSE [raised |-> FALSE,
          timestamp |-> BitsValue(word, 56, Min(63, nbits - 1)),
          packet_bytes |-> [k \in 1..7 |-> BitsValue(word, 8 * (k - 1), 8 * k - 1)]]

\* dat2h5.py extract_lpx_data(word), word being the bytes file.read(8) returned.
\* bits[54:64] is empty when fewer than 55 bits were read, and int('', 2) raises
\* ValueError; otherwise the timestamp is made of the bits from 54 on and the
\* packet bytes of bits 0..53, the last byte filled up with zero bits.
extract_lpx_data(word) ==
    LET nbits == 8 * Len(word) IN
    IF nbits <= 54
    THEN [raised |-> TRUE, timestamp |-> 0, packet_bytes |-> <<>>]
    ELSE [raised |-> FALSE,
          timestamp |-> BitsValue(word, 54, Min(63, nbits - 1)),
          packet_bytes |-> [k \in 1..7 |-> BitsValue(word, 8 * (k - 1),
                                                      Min(8 * k - 1, 53))]]

(***************************************************************************)
(* The collaborators of dat2h5.py: the packets SerialPort._parse_input     *)
(* finds in a block, the geometry table, the calibration table and         *)
(* larpix.timestamp.Timestamp.                                             *)
(***************************************************************************)
range(n) == 0 .. (n - 1)

\* chip ids a packet can carry: the chip id field of a packet is 8 bits wide
ChipIds == range(2 ^ 8)

Packet(ty, c, ch, w, t, a, d) ==
    [packet_type |-> ty, chipid |-> c, channel_id |-> ch, dataword |-> w,
     timestamp |-> t, register_address |-> a, register_data |-> d]

\* Configuration.pixel_trim_threshold_addresses and .global_threshold_address
pixel_trim_threshold_addresses == range(32)
global_threshold_address == 32

\* the packets of the input streams of the model (a third Data packet, of chip 1
\* channel 1, comes in the two-packet list of PacketLists)
DataPackets ==
    { Packet("DATA", 1, 0, 129, 1000, 0, 0),
      Packet("DATA", 255, 0, 129, 3, 0, 0) }
ConfigWritePackets ==
    { Packet("CONFIG_WRITE", 1, 0, 0, 0, 0, 7),     \* trim of channel 0
      Packet("CONFIG_WRITE", 1, 0, 0, 0, 0, 9),
      Packet("CONFIG_WRITE", 1, 0, 0, 0, 32, 8),    \* global threshold
      Packet("CONFIG_WRITE", 1, 0, 0, 0, 32, 6),
      Packet("CONFIG_WRITE", 1, 0, 0, 0, 40, 7) }   \* another register
OtherPackets == { Packet("CONFIG_READ", 1, 0, 0, 0, 0, 0) }
Packets == DataPackets \cup ConfigWritePackets \cup OtherPackets

\* the packet lists parse() returns for the blocks of the model: no packet, any
\* one packet, two writes, two Data packets
PacketLists ==
    { <<>> } \cup { <<p>> : p \in Packets }
      \cup { << Packet("CONFIG_WRITE", 1, 0, 0, 0, 0, 7),
                Packet("CONFIG_WRITE", 1, 0, 0, 0, 32, 8) >>,
             << Packet("DATA", 1, 1, 129, 3, 0, 0),
                Packet("DATA", 1, 2, 129, 1000, 0, 0) >> }

\* block['time'] of a .dat block: a capture time, or a negative (invalid) one
CaptureTimes == {-1, 5}

\* the blocks DataLoader.next_block can return
\* (the loop reads block['time'] of data-read blocks only)
DatBlocks ==
    [block_type : {"data"}, data_type : {"read"}, data : PacketLists,
     time : CaptureTimes]
      \cup [block_type : {"data"}, data_type : {"write"}, data : PacketLists,
            time : {5}]
      \cup [block_type : {"text"}, data_type : {"none"}, data : { <<>> },
            time : {5}]

\* a .lpx word, as extract_lpx_data splits it: the 10-bit timestamp and the packet
\* the 54 payload bits parse to
LpxTimestamps == {3, 1000, 1005}
LpxWords == [timestamp : LpxTimestamps, packet : Packets]

\* a last read of fewer than 8 bytes, with the packet the payload parses to
PartialReads ==
    { [n \in 1..k |-> 9 * n] : k \in 1..6 }
      \cup { <<9, 18, 27, 36, 45, 54, b>> : b \in {63, 192} }
PartialWords ==
    [bytes : PartialReads,
     packet : { Packet("DATA", 1, 0, 129, 1000, 0, 0), Packet("CONFIG_READ", 1, 0, 0, 0, 0, 0) }]
\* the short reads extract_lpx_data splits, as split, and the lengths of those
\* it raises on
SplitWords ==
    { [timestamp |-> extract_lpx_data(w.bytes).timestamp, packet |-> w.packet,
       nbytes |-> Len(w.bytes)] :
      w \in { x \in PartialWords : ~extract_lpx_data(x.bytes).raised } }
RaisingReads ==
    { Len(w.bytes) : w \in { x \in PartialWords : extract_lpx_data(x.bytes).raised } }

\* geometry: chip 1 has channel 0 on pixel 5 at (1.25, -0.75) and channel 1
\* unconnected; x and y are held in hundredths (both are multiples of 1/4, so
\* the floating-point product 10*x is exact)
unconnected_pixel == [pixelid |-> None, x |-> 0, y |-> 0]
geometry_chips == (1 :> << [pixelid |-> Some(5), x |-> 125, y |-> -75],
                           unconnected_pixel >>)

\* calib_data[str(chipid)][str(channel)] as json.load returns it: a dict of dicts
\* of dicts, any key of which may be missing.  The values are volts held in
\* units of 2^-8 V, so that they are binary floating-point numbers and the
\* arithmetic of lines 269-271 and 275 on them is exact: chip 1, channel 0 has
\* gain_v 0.00390625, gain_vcm 0.25, pedestal_v 0.5; channel 1 has no pedestal_v
\* and channel 2 no gain_vcm.
calib_data ==
    (1 :> (0 :> [gain_v |-> 1, gain_vcm |-> 64, pedestal_v |-> 128]
           @@ 1 :> [gain_v |-> 1, gain_vcm |-> 64]
           @@ 2 :> [gain_v |-> 1, pedestal_v |-> 128]))

\* the int64 cell a float is stored in: the fraction is cut off (toward zero);
\* the float is n / d
Trunc(n, d) == IF n >= 0 THEN n \div d ELSE -((-n) \div d)

\* int(10 * x) for x held in hundredths: int() truncates toward zero
Int10(x100) == IF x100 >= 0 THEN x100 \div 10 ELSE -((-x100) \div 10)

\* the rollover algorithm of larpix.timestamp, as the specification gives it
reconstruct(truncated, reference, bit_width, late_window) ==
    LET rollover == 2 ^ bit_width IN
    IF reference = None THEN truncated
    ELSE IF reference[1] <= truncated THEN truncated
    ELSE IF reference[1] - truncated < late_window THEN -1
    ELSE CeilDiv(reference[1] - truncated, rollover) * rollover + truncated

\* Timestamp.from_packet(packet, cpu_time, ref_time).ns
Timestamp_from_packet(packet, cpu_time, ref_time) ==
    reconstruct(packet.timestamp, ref_time, 24, 10)

\* what np.empty can leave in a cell that is never written
Garbage == {0, 77}

(***************************************************************************)
(* The conversion pass.                                                    *)
(***************************************************************************)
index_limit == 10000

\* lpx_loader.next_block on a full 8-byte word: the block it returns and the
\* prev_timestamp it leaves.  block['time'] is the word's 10-bit timestamp.
next_block(word, prev) ==
    LET fixed_timestamp == fix_lpx_timestamp_rollover(word.timestamp, prev, 10, 10)
    IN  [block |-> [block_type |-> "data", data_type |-> "read",
                    data |-> << word.packet >>, time |-> word.timestamp],
         fixed_timestamp |-> fixed_timestamp,
         prev_timestamp |-> IF fixed_timestamp >= 0 THEN fixed_timestamp ELSE prev]

\* lines 221-233: one packet of a data-write block
ConfigWrite(ct, packet) ==
    IF packet.packet_type # "CONFIG_WRITE" THEN ct
    ELSE LET chipid == packet.chipid
             channel == packet.register_address
         IN  IF packet.register_address \in pixel_trim_threshold_addresses
             THEN IF chipid \in DOMAIN ct
                  THEN [ct EXCEPT ![chipid].trim =
                            (channel :> packet.register_data) @@ @]
                  ELSE (chipid :> [trim |-> (channel :> packet.register_data),
                                   global |-> None]) @@ ct
             ELSE IF packet.register_address = global_threshold_address
             THEN IF chipid \in DOMAIN ct
                  THEN [ct EXCEPT ![chipid].global = Some(packet.register_data)]
                  ELSE (chipid :> [trim |-> <<>>,
                                   global |-> Some(packet.register_data)]) @@ ct
             ELSE ct

RECURSIVE ConfigWrites(_, _, _)
\* lines 219-233: the packets of a data-write block, in order
ConfigWrites(ct, packets, i) ==
    IF i > Len(packets) THEN ct
    ELSE ConfigWrites(ConfigWrite(ct, packets[i]), packets, i + 1)

\* lines 247-252: columns 12 and 13; one try block covers both lookups
Thresholds(ct, chipid, channel) ==
    IF /\ chipid \in DOMAIN ct
       /\ channel \in DOMAIN ct[chipid].trim
       /\ ct[chipid].global # None
    THEN [pixel_trim |-> ct[chipid].trim[channel], global_threshold |-> ct[chipid].global[1]]
    ELSE [pixel_trim |-> -1, global_threshold |-> -1]

\* (a lookup that falls back on the first pixel of the plane)
Pixel_first(chipid, channel) ==
    IF chipid \in DOMAIN geometry_chips /\ channel + 1 \in DOMAIN geometry_chips[chipid]
    THEN geometry_chips[chipid][channel + 1]
    ELSE geometry_chips[1][1]

\* lines 253-258: KeyError for an unknown chip, IndexError for a channel off the list
Pixel(chipid, channel) ==
    IF chipid \in DOMAIN geometry_chips /\ channel + 1 \in DOMAIN geometry_chips[chipid]
    THEN geometry_chips[chipid][channel + 1]
    ELSE unconnected_pixel

\* calib_data[str(chipid)][str(channel)][name] raises KeyError
CalibMissing(chipid, channel, name) ==
    \/ chipid \notin DOMAIN calib_data
    \/ channel \notin DOMAIN calib_data[chipid]
    \/ name \notin DOMAIN calib_data[chipid][channel]

\* lines 268-278: columns 10 and 11, each in a try block of its own:
\* 1e3 * (dataword * gain_v + gain_vcm) and 1e3 * pedestal_v, stored in int64 cells
Calibrated(packet) ==
    LET chipid == packet.chipid
        channel == packet.channel_id
    IN  [v |-> IF \/ CalibMissing(chipid, channel, "gain_v")
                  \/ CalibMissing(chipid, channel, "gain_vcm")
               THEN -1
               ELSE Trunc(1000 * (packet.dataword * calib_data[chipid][channel].gain_v
                                    + calib_data[chipid][channel].gain_vcm), 2 ^ 8),
         pdst_v |-> IF CalibMissing(chipid, channel, "pedestal_v")
                    THEN -1
                    ELSE Trunc(1000 * calib_data[chipid][channel].pedestal_v, 2 ^ 8)]

\* lines 238-289: the row current_array[current_index] after a Data packet; `old8`
\* is what column 8 of that row held before, which stays when cpu_time < 0
Row(packet, cpu_time, sb, ct, ref_time, old8) ==
    LET th == Thresholds(ct, packet.chipid, packet.channel_id)
        pixel == Pixel(packet.chipid, packet.channel_id)
        cal == Calibrated(packet)
    IN  [channelid |-> packet.channel_id,
         chipid |-> packet.chipid,
         pixelid |-> IF pixel.pixelid = None THEN -1 ELSE pixel.pixelid[1],
         pixelx |-> IF pixel.pixelid = None THEN -1 ELSE Int10(pixel.x),
         pixely |-> IF pixel.pixelid = None THEN -1 ELSE Int10(pixel.y),
         raw_adc |-> packet.dataword,
         raw_timestamp |-> packet.timestamp,
         adc |-> fix_ADC(packet.dataword),
         timestamp |-> IF ~(cpu_time < 0)
                       THEN Timestamp_from_packet(packet, cpu_time, ref_time)
                       ELSE old8,
         serialblock |-> sb,
         v |-> cal.v,
         pdst_v |-> cal.pdst_v,
         pixel_trim |-> th.pixel_trim,
         global_threshold |-> th.global_threshold,
         cpu_timestamp |-> cpu_time]

\* a signed 64-bit cell read into an unsigned 64-bit branch buffer: x >= 0 is
\* itself, x < 0 is 2^64 + x, held as the pair <<1, x>>
U64(x) == IF x < 0 THEN <<1, x>> ELSE <<0, x>>

\* lines 297-306: the tree entry filled from the row
Fill(row) ==
    [row EXCEPT !.raw_timestamp = U64(@), !.timestamp = U64(@),
                !.cpu_timestamp = U64(@)]

\* (an update whose second branch is not guarded by the capture time)
LastTimestamp_unguarded(last, packet, cpu_time, ref_time) ==
    LET current_timestamp == IF cpu_time < 0 THEN -1
                             ELSE Timestamp_from_packet(packet, cpu_time, ref_time) IN
    IF DOMAIN last = {} /\ ~(cpu_time < 0)
    THEN [chip \in range(255) |-> current_timestamp]
    ELSE (packet.chipid :> current_timestamp) @@ last

\* lines 282-294: last_timestamp after a Data packet
LastTimestamp(last, packet, cpu_time, ref_time) ==
    LET current_timestamp == Timestamp_from_packet(packet, cpu_time, ref_time) IN
    IF DOMAIN last = {} /\ ~(cpu_time < 0)
    THEN [chip \in range(255) |-> current_timestamp]
    ELSE IF ~(cpu_time < 0)
    THEN (packet.chipid :> current_timestamp) @@ last
    ELSE last

\* lines 296-313: the row is filled into the tree, or the row index moves on and a
\* new chunk is taken when the chunk is full
Sink(s, written, row, last, root) ==
    IF root
    THEN [numpy_arrays |-> written, current_index |-> s.current_index,
          ttree |-> Append(s.ttree, Fill(row)), last_timestamp |-> last]
    ELSE IF s.current_index + 1 = index_limit
    THEN [numpy_arrays |-> Append(written, <<>>), current_index |-> 0,
          ttree |-> s.ttree, last_timestamp |-> last]
    ELSE [numpy_arrays |-> written, current_index |-> s.current_index + 1,
          ttree |-> s.ttree, last_timestamp |-> last]

\* lines 237-313: one Data packet of a data-read block.  s holds numpy_arrays,
\* current_index, ttree and last_timestamp; g is what the row holds in column 8
\* if it was never written.
DataPacket(s, packet, cpu_time, sb, ct, root, g) ==
    LET chunk == s.numpy_arrays[Len(s.numpy_arrays)]
        old8 == IF s.current_index + 1 \in DOMAIN chunk
                THEN chunk[s.current_index + 1].timestamp ELSE g
        ref_time == IF packet.chipid \in DOMAIN s.last_timestamp
                    THEN Some(s.last_timestamp[packet.chipid]) ELSE None
        row == Row(packet, cpu_time, sb, ct, ref_time, old8)
        written == [s.numpy_arrays EXCEPT ![Len(s.numpy_arrays)] =
                        IF s.current_index + 1 \in DOMAIN chunk
                        THEN [chunk EXCEPT ![s.current_index + 1] = row]
                        ELSE Append(chunk, row)]
        last == LastTimestamp(s.last_timestamp, packet, cpu_time, ref_time)
    IN  Sink(s, written, row, last, root)

RECURSIVE DataPackets_(_, _, _, _, _, _, _, _)
\* lines 235-313: the packets of a data-read block, in order
DataPackets_(s, packets, i, cpu_time, sb, ct, root, g) ==
    IF i > Len(packets) THEN s
    ELSE DataPackets_(IF packets[i].packet_type = "DATA"
                      THEN DataPacket(s, packets[i], cpu_time, sb, ct, root, g[i])
                      ELSE s,
                      packets, i + 1, cpu_time, sb, ct, root, g)

\* line 322: np.vstack
RECURSIVE vstack(_)
vstack(arrays) ==
    IF arrays = <<>> THEN <<>> ELSE Head(arrays) \o vstack(Tail(arrays))

\* a row of np.empty that was never written: every column holds g
UnwrittenRow(g) ==
    [channelid |-> g, chipid |-> g, pixelid |-> g, pixelx |-> g, pixely |-> g,
     raw_adc |-> g, raw_timestamp |-> g, adc |-> g, timestamp |-> g,
     serialblock |-> g, v |-> g, pdst_v |-> g, pixel_trim |-> g,
     global_threshold |-> g, cpu_timestamp |-> g]

\* the first n rows of a chunk.  The model keeps the rows written to a chunk; the
\* rows np.empty allocated behind them are unwritten.
Cut(chunk, n, g) ==
    IF n <= Len(chunk) THEN SubSeq(chunk, 1, n)
    ELSE chunk \o [i \in 1..(n - Len(chunk)) |-> UnwrittenRow(g)]

\* (a flush that stacks the last chunk whole)
Flushed_untrimmed(arrays, idx, g) ==
    vstack([k \in DOMAIN arrays |-> Cut(arrays[k], index_limit, g)])

\* lines 321-322: the last chunk cut to current_index rows, the chunks (the
\* earlier ones with all their index_limit rows) stacked
Flushed(arrays, idx, g) ==
    vstack([k \in DOMAIN arrays |->
              Cut(arrays[k], IF k = Len(arrays) THEN idx ELSE index_limit, g)])

(***************************************************************************)
(* History of the input stream.  seen.data_total counts the Data packets   *)
(* of all blocks read, seen.data_read those of data-read blocks;           *)
(* seen.global and seen.trim hold the data of the latest global-threshold  *)
(* and trim write observed per chip and per (chip, channel); seen.cold is  *)
(* the timestamp of the first Data packet with a valid capture time and    *)
(* seen.later the chips that had such a packet after it, seen.own the      *)
(* timestamp of the latest such packet of each of them, reconstructed from *)
(* the chip's previous one (or from seen.cold); seen.short is the          *)
(* length of a short last read on which next_block raised and              *)
(* seen.skipped the types of the packets that skipped frames carried;      *)
(* seen.last holds the Data packets of the latest data-read block.         *)
(***************************************************************************)
SeenInit ==
    [data_total |-> 0, data_read |-> 0, global |-> <<>>, trim |-> <<>>,
     cold |-> None, later |-> {}, short |-> None, skipped |-> {},
     own |-> <<>>, last |-> <<>>]

NumData(packets) == Cardinality({i \in DOMAIN packets : packets[i].packet_type = "DATA"})

RECURSIVE SeenWrites(_, _, _)
SeenWrites(sn, packets, i) ==
    IF i > Len(packets) THEN sn
    ELSE LET p == packets[i] IN
         SeenWrites(IF p.packet_type # "CONFIG_WRITE" THEN sn
                    ELSE IF p.register_address = global_threshold_address
                    THEN [sn EXCEPT !.global = (p.chipid :> p.register_data) @@ @]
                    ELSE IF p.register_address \in pixel_trim_threshold_addresses
                    THEN [sn EXCEPT !.trim =
                              (<<p.chipid, p.register_address>> :> p.register_data) @@ @]
                    ELSE sn,
                    packets, i + 1)

RECURSIVE SeenReads(_, _, _, _)
SeenReads(sn, packets, i, cpu_time) ==
    IF i > Len(packets) THEN sn
    ELSE LET p == packets[i] IN
         SeenReads(IF p.packet_type # "DATA" \/ cpu_time < 0 THEN sn
                   ELSE IF sn.cold = None
                   THEN [sn EXCEPT !.cold = Some(Timestamp_from_packet(p, cpu_time, None))]
                   ELSE [sn EXCEPT !.later = @ \cup {p.chipid},
                                   !.own = (p.chipid :>
                                             Timestamp_from_packet(p, cpu_time,
                                                Some(IF p.chipid \in DOMAIN sn.own
                                                     THEN sn.own[p.chipid]
                                                     ELSE sn.cold[1]))) @@ @],
                   packets, i + 1, cpu_time)

\* the records emitted so far: the tree entries, or the rows written to the chunks
emitted == IF use_root THEN ttree ELSE vstack(numpy_arrays)

\* the records of the output file once the pass has ended
output == IF use_root THEN ttree ELSE final_array[1]

(***************************************************************************)
(* Spec: the state after line 201, and one action per way an iteration of  *)
(* the loop of lines 202-313 can go.  The two ways out of the loop run on  *)
(* into lines 314-325.                                                     *)
(***************************************************************************)
Init ==
    /\ fpc = "idle" /\ time = 0 /\ ref = 0 /\ time_nbit = 10
    /\ late_packet_window = 10 /\ fixed_time = 0
    /\ raw_adc = 0 /\ adc = 0
    /\ WordIdle
    /\ pc = "loop"
    /\ infile_fmt \in {".dat", ".lpx"}
    /\ use_root \in BOOLEAN
    /\ n_skip \in {0, 2}
    /\ n_trans \in {None, Some(2)}
    /\ serialblock = -1
    /\ prev_timestamp = 0
    /\ at_eof = FALSE
    /\ chip_threshold = <<>>
    /\ last_timestamp = <<>>
    /\ numpy_arrays = << <<>> >>
    /\ current_index = 0
    /\ ttree = <<>>
    /\ final_array = None
    /\ blocks = <<>>
    /\ seen = SeenInit

\* loader.next_block() when the file has another block: what it can return
\* (for .lpx: after 8 bytes, or after a short last read that extract_lpx_data
\* could split)
Fetched ==
    IF infile_fmt = ".dat"
    THEN { [block |-> b, prev_timestamp |-> prev_timestamp, word |-> None,
            nbytes |-> 0] :
           b \in DatBlocks }
    ELSE { [block |-> next_block(w, prev_timestamp).block,
            prev_timestamp |-> next_block(w, prev_timestamp).prev_timestamp,
            word |-> Some(w), nbytes |-> 8] : w \in LpxWords }
          \cup
         { [block |-> next_block(w, prev_timestamp).block,
            prev_timestamp |-> next_block(w, prev_timestamp).prev_timestamp,
            word |-> Some(w), nbytes |-> w.nbytes] : w \in SplitWords }

\* lines 203-204: the loader is advanced and the block counted
Advance(f) ==
    /\ pc = "loop"
    /\ serialblock + 1 < MaxFrames
    /\ ~at_eof
    /\ serialblock' = serialblock + 1
    /\ prev_timestamp' = f.prev_timestamp
    /\ at_eof' = (f.word # None /\ f.nbytes < 8)
    /\ blocks' = IF f.word = None THEN blocks
                 ELSE Append(blocks, [block_type |-> f.block.block_type,
                                      data_type |-> f.block.data_type,
                                      time |-> f.block.time,
                                      word_time |-> f.word[1].timestamp,
                                      nbytes |-> f.nbytes])

\* line 209, after serialblock += 1
Limit == n_trans # None /\ serialblock + 1 >= n_trans[1]
\* (a skip test that stops skipping one frame early)
Skip_one_short == serialblock + 1 < n_skip - 1
\* line 215, after serialblock += 1
Skip == serialblock + 1 < n_skip

\* lines 314-325: the tree is written as it is; for h5 the last chunk is cut to
\* current_index rows and the chunks are stacked into the dataset
Flush ==
    /\ pc' = "done"
    /\ \E g \in Garbage :
        /\ numpy_arrays' = IF use_root THEN numpy_arrays
                           ELSE [numpy_arrays EXCEPT ![Len(numpy_arrays)] =
                                    Cut(@, current_index, g)]
        /\ final_array' = IF use_root THEN None
                          ELSE Some(Flushed(numpy_arrays, current_index, g))
    /\ UNCHANGED <<chip_threshold, last_timestamp, current_index, ttree>>

\* lines 205-208: block is None
EndOfStream ==
    /\ pc = "loop"
    /\ serialblock' = serialblock + 1
    /\ Flush
    /\ UNCHANGED <<prev_timestamp, at_eof, blocks, seen>>
    /\ UNCHANGED <<infile_fmt, use_root, n_skip, n_trans>>
    /\ UNCHANGED fixvars

\* lines 203, 95-97 and 48: the file ends in a word of fewer than 7 bytes;
\* extract_lpx_data raises ValueError, which nothing catches: the script stops
\* with lines 314-325 not run
NextBlockRaises ==
    /\ pc = "loop"
    /\ infile_fmt = ".lpx"
    /\ serialblock + 1 < MaxFrames
    /\ ~at_eof
    /\ \E n \in RaisingReads : seen' = [seen EXCEPT !.short = Some(n)]
    /\ pc' = "error"
    /\ at_eof' = TRUE
    /\ UNCHANGED <<serialblock, prev_timestamp, blocks, chip_threshold, last_timestamp,
                   numpy_arrays, current_index, ttree, final_array>>
    /\ UNCHANGED <<infile_fmt, use_root, n_skip, n_trans>>
    /\ UNCHANGED fixvars

\* lines 209-212: serialblock >= n_trans
LimitReached ==
    /\ \E f \in Fetched :
        /\ Advance(f)
        /\ Limit
        /\ Flush
    /\ UNCHANGED seen
    /\ UNCHANGED <<infile_fmt, use_root, n_skip, n_trans>>
    /\ UNCHANGED fixvars

\* lines 215-216: serialblock < n_skip
SkipBlock ==
    /\ \E f \in Fetched :
        /\ Advance(f)
        /\ ~Limit /\ Skip
        /\ seen' = [seen EXCEPT !.data_total = @ + NumData(f.block.data),
                                !.skipped = @ \cup { f.block.data[i].packet_type :
                                                     i \in DOMAIN f.block.data }]
    /\ UNCHANGED <<pc, chip_threshold, last_timestamp, numpy_arrays, current_index,
                   ttree, final_array>>
    /\ UNCHANGED <<infile_fmt, use_root, n_skip, n_trans>>
    /\ UNCHANGED fixvars

\* lines 217-233: a data-write block
WriteBlock ==
    /\ \E f \in Fetched :
        /\ Advance(f)
        /\ ~Limit /\ ~Skip
        /\ f.block.block_type = "data" /\ f.block.data_type = "write"
        /\ chip_threshold' = ConfigWrites(chip_threshold, f.block.data, 1)
        /\ seen' = [SeenWrites(seen, f.block.data, 1)
                        EXCEPT !.data_total = @ + NumData(f.block.data)]
    /\ UNCHANGED <<pc, last_timestamp, numpy_arrays, current_index, ttree, final_array>>
    /\ UNCHANGED <<infile_fmt, use_root, n_skip, n_trans>>
    /\ UNCHANGED fixvars

\* lines 234-313: a data-read block
ReadBlock ==
    /\ \E f \in Fetched :
        /\ Advance(f)
        /\ ~Limit /\ ~Skip
        /\ f.block.block_type = "data" /\ f.block.data_type = "read"
        /\ \E g \in [DOMAIN f.block.data ->
                        IF f.block.time < 0 THEN Garbage ELSE {0}] :
            LET s == DataPackets_([numpy_arrays |-> numpy_arrays,
                                   current_index |-> current_index,
                                   ttree |-> ttree,
                                   last_timestamp |-> last_timestamp],
                                  f.block.data, 1, f.block.time, serialblock + 1,
                                  chip_threshold, use_root, g)
            IN  /\ numpy_arrays' = s.numpy_arrays
                /\ current_index' = s.current_index
                /\ ttree' = s.ttree
                /\ last_timestamp' = s.last_timestamp
        /\ seen' = [SeenReads(seen, f.block.data, 1, f.block.time)
                        EXCEPT !.data_total = @ + NumData(f.block.data),
                               !.data_read = @ + NumData(f.block.data),
                               !.last = SelectSeq(f.block.data,
                                                  LAMBDA p : p.packet_type = "DATA")]
    /\ UNCHANGED <<pc, chip_threshold, final_array>>
    /\ UNCHANGED <<infile_fmt, use_root, n_skip, n_trans>>
    /\ UNCHANGED fixvars

\* a block that is neither: no branch of lines 217-234 is taken
OtherBlock ==
    /\ \E f \in Fetched :
        /\ Advance(f)
        /\ ~Limit /\ ~Skip
        /\ ~(f.block.block_type = "data" /\ f.block.data_type \in {"write", "read"})
        /\ seen' = [seen EXCEPT !.data_total = @ + NumData(f.block.data)]
    /\ UNCHANGED <<pc, chip_threshold, last_timestamp, numpy_arrays, current_index,
                   ttree, final_array>>
    /\ UNCHANGED <<infile_fmt, use_root, n_skip, n_trans>>
    /\ UNCHANGED fixvars

Next ==
    \/ EndOfStream
    \/ NextBlockRaises
    \/ LimitReached
    \/ SkipBlock
    \/ WriteBlock
    \/ ReadBlock
    \/ OtherBlock

Spec == Init /\ [][Next]_vars

(***************************************************************************)
(* SpecFix: the arguments are drawn, then the function is applied.         *)
(***************************************************************************)
TimeInputs == (0..MaxTime) \cup {1000, 1005, 1023}
RefInputs == (0..MaxRef) \cup {1000, 1005, 1027, 2047, 2060}
NbitInputs == {3, 10}
WindowInputs == (1..MaxWindow) \cup {20}

MainIdle ==
    /\ pc = "idle"
    /\ infile_fmt = ".dat"
    /\ use_root = FALSE
    /\ n_skip = 0
    /\ n_trans = None
    /\ serialblock = -1
    /\ prev_timestamp = 0
    /\ at_eof = FALSE
    /\ chip_threshold = <<>>
    /\ last_timestamp = <<>>
    /\ numpy_arrays = << <<>> >>
    /\ current_index = 0
    /\ ttree = <<>>
    /\ final_array = None
    /\ blocks = <<>>
    /\ seen = <<>>

FixInit ==
    /\ fpc = "args"
    /\ time \in TimeInputs
    /\ ref \in RefInputs
    /\ time_nbit \in NbitInputs
    /\ late_packet_window \in WindowInputs
    /\ fixed_time = 0
    /\ raw_adc = 0 /\ adc = 0
    /\ WordIdle
    /\ MainIdle

CallFix ==
    /\ fpc = "args"
    /\ fixed_time' = fix_lpx_timestamp_rollover(time, ref, time_nbit, late_packet_window)
    /\ fpc' = "returned"
    /\ UNCHANGED <<time, ref, time_nbit, late_packet_window, raw_adc, adc>>
    /\ UNCHANGED <<lpx_word, lpx_timestamp, lpx_packet_bytes>>
    /\ UNCHANGED mainvars

FixNext == CallFix

SpecFix == FixInit /\ [][FixNext]_vars

(***************************************************************************)
(* SpecChunk: the conversion of a .dat file to h5 with no skip count and   *)
(* no limit, taken up after a data-read block of capture time 5 that       *)
(* carried n Data packets of chip 1, channel 0, n being 0 or just short of *)
(* index_limit, and followed to its end.                                   *)
(***************************************************************************)
ChunkPacket == Packet("DATA", 1, 0, 129, 1000, 0, 0)
ChunkFill == {0, index_limit - 2, index_limit - 1}

\* the row of one of the n packets: all are reconstructed to the same timestamp
ChunkRow(sb) ==
    Row(ChunkPacket, 5, sb, <<>>, Some(Timestamp_from_packet(ChunkPacket, 5, None)), 0)

ChunkInit ==
    /\ fpc = "idle" /\ time = 0 /\ ref = 0 /\ time_nbit = 10
    /\ late_packet_window = 10 /\ fixed_time = 0
    /\ raw_adc = 0 /\ adc = 0
    /\ WordIdle
    /\ pc = "loop"
    /\ infile_fmt = ".dat" /\ use_root = FALSE
    /\ n_skip = 0 /\ n_trans = None
    /\ serialblock = MaxFrames - 3
    /\ prev_timestamp = 0 /\ at_eof = FALSE
    /\ chip_threshold = <<>>
    /\ ttree = <<>> /\ final_array = None /\ blocks = <<>>
    /\ \E n \in ChunkFill :
        /\ numpy_arrays = << [i \in 1..n |-> ChunkRow(serialblock)] >>
        /\ current_index = n
        /\ last_timestamp =
              IF n = 0 THEN <<>>
              ELSE (1 :> Timestamp_from_packet(ChunkPacket, 5, None)) @@
                   [chip \in range(255) |-> Timestamp_from_packet(ChunkPacket, 5, None)]
        /\ seen = IF n = 0 THEN SeenInit
                  ELSE [SeenInit EXCEPT
                          !.data_total = n, !.data_read = n,
                          !.cold = Some(Timestamp_from_packet(ChunkPacket, 5, None)),
                          !.later = {1},
                          !.own = (1 :> Timestamp_from_packet(ChunkPacket, 5, None)),
                          !.last = [i \in 1..n |-> ChunkPacket]]

ChunkNext ==
    \/ EndOfStream
    \/ WriteBlock
    \/ ReadBlock
    \/ OtherBlock

SpecChunk == ChunkInit /\ [][ChunkNext]_vars

(***************************************************************************)
(* SpecADC: fix_ADC is called once on an 8-bit ADC word (packet.dataword,  *)
(* line 242).                                                              *)
(***************************************************************************)
AdcInputs == range(2 ^ 8)

AdcInit ==
    /\ fpc = "args"
    /\ raw_adc \in AdcInputs
    /\ adc = 0
    /\ WordIdle
    /\ time = 0 /\ ref = 0 /\ time_nbit = 10
    /\ late_packet_window = 10 /\ fixed_time = 0
    /\ MainIdle

CallFixADC ==
    /\ fpc = "args"
    /\ adc' = fix_ADC(raw_adc)
    /\ fpc' = "returned"
    /\ UNCHANGED <<time, ref, time_nbit, late_packet_window, fixed_time, raw_adc>>
    /\ UNCHANGED <<lpx_word, lpx_timestamp, lpx_packet_bytes>>
    /\ UNCHANGED mainvars

AdcNext == CallFixADC

SpecADC == AdcInit /\ [][AdcNext]_vars

(***************************************************************************)
(* SpecWord: extract_lpx_data is called once on an 8-byte word (line 97).  *)
(* The two bytes the split runs through take every value; the six below    *)
(* them come from a few patterns.                                          *)
(***************************************************************************)
Bytes == range(2 ^ 8)
LowBytes == { <<255, 255, 255, 255, 255, 255>>, <<1, 2, 4, 8, 16, 160>> }

WordInit ==
    /\ fpc = "args"
    /\ \E low \in LowBytes, b7 \in Bytes, b8 \in Bytes : lpx_word = low \o <<b7, b8>>
    /\ lpx_timestamp = 0 /\ lpx_packet_bytes = <<>>
    /\ time = 0 /\ ref = 0 /\ time_nbit = 10
    /\ late_packet_window = 10 /\ fixed_time = 0
    /\ raw_adc = 0 /\ adc = 0
    /\ MainIdle

CallExtract ==
    /\ fpc = "args"
    /\ LET r == extract_lpx_data(lpx_word) IN
        /\ ~r.raised
        /\ lpx_timestamp' = r.timestamp
        /\ lpx_packet_bytes' = r.packet_bytes
    /\ fpc' = "returned"
    /\ UNCHANGED <<time, ref, time_nbit, late_packet_window, fixed_time, raw_adc, adc,
                   lpx_word>>
    /\ UNCHANGED mainvars

WordNext == CallExtract

SpecWord == WordInit /\ [][WordNext]_vars

\* C1: for every r > t with r - t < late_window, whatever late_window was passed,
\* the function returns the reject sentinel -1.
C1_LateRejectedForEveryWindow ==
    (fpc = "returned" /\ ref > time /\ ref - time < late_packet_window)
        => fixed_time = -1

\* C2: with late_window = 10, for every r > t with r - t >= late_window the result is
\* congruent to t modulo 2^bit_width, is >= r, and is the smallest such value
\* (result < r + 2^bit_width).
C2_RolloverSmallestCongruent ==
    (fpc = "returned" /\ late_packet_window = 10 /\ ref > time
                      /\ ref - time >= late_packet_window)
        => /\ fixed_time % (2 ^ time_nbit) = time % (2 ^ time_nbit)
           /\ fixed_time >= ref
           /\ fixed_time < ref + 2 ^ time_nbit

C2_Witness ==
    /\ fpc = "returned" /\ late_packet_window = 10 /\ time_nbit = 10
    /\ time = 3 /\ ref = 1005 /\ fixed_time = 1027

\* C3: for every t and r with r <= t the function returns exactly t.
C3_NoRolloverReturnsTruncated ==
    (fpc = "returned" /\ ref <= time) => fixed_time = time

C3_Witness ==
    /\ fpc = "returned" /\ time = 1005 /\ ref = 1000 /\ fixed_time = 1005

(***************************************************************************)
(* Properties of the conversion pass (Spec).                               *)
(***************************************************************************)
\* C4: a .lpx stream of three words with 10-bit timestamps 1000, 1005, 3, read from
\* reference 0, yields the timestamps 1000, 1005, 1027 on the three frames produced.
C4_ScenarioAFrameTimes ==
    (/\ infile_fmt = ".lpx"
     /\ Len(blocks) = 3
     /\ [i \in 1..3 |-> blocks[i].word_time] = <<1000, 1005, 3>>)
        => [i \in 1..3 |-> blocks[i].time] = <<1000, 1005, 1027>>

\* C5: in .lpx mode every frame next_block returns is a data-read frame whose
\* capture time is negative.
C5_LpxFramesInvalidCaptureTime ==
    \A i \in DOMAIN blocks :
        /\ blocks[i].block_type = "data"
        /\ blocks[i].data_type = "read"
        /\ blocks[i].time < 0

\* C6: every record emitted for a Data packet with a negative capture time has -1 as
\* its reconstructed timestamp, in the h5 rows and in the tree entries alike.
C6_InvalidCaptureTimeCarriesSentinel ==
    /\ ~use_root =>
          \A k \in DOMAIN emitted :
              emitted[k].cpu_timestamp < 0 => emitted[k].timestamp = -1
    /\ use_root =>
          \A k \in DOMAIN ttree :
              ttree[k].cpu_timestamp[1] = 1 => ttree[k].timestamp = U64(-1)

\* C7: once the first Data packet with a valid capture time has been processed,
\* every chip id a packet can carry has a reference, equal to that packet's
\* timestamp as long as the chip has had no valid Data packet of its own since.
C7_ColdStartAllChips ==
    seen.cold # None =>
        \A c \in ChipIds :
            /\ c \in DOMAIN last_timestamp
            /\ c \notin seen.later => last_timestamp[c] = seen.cold[1]

\* C8: a record emitted for chip C after a global-threshold write of V for C was
\* observed carries V (the latest such V) as global threshold, on any channel; a
\* record of a channel whose trim was never written carries trim -1.
C8_GlobalThresholdOnEveryChannel ==
    [][\A k \in (Len(emitted) + 1) .. Len(emitted') :
          LET r == emitted'[k] IN
          /\ r.chipid \in DOMAIN seen.global
                => r.global_threshold = seen.global[r.chipid]
          /\ <<r.chipid, r.channelid>> \notin DOMAIN seen.trim
                => r.pixel_trim = -1]_vars

\* C9: the trim of a record for (chip C, channel ch) is the data of the latest trim
\* write to (C, ch) observed before it, or -1 if there was none, whether or not a
\* global-threshold write for C was observed.
C9_TrimIsLatestWrite ==
    [][\A k \in (Len(emitted) + 1) .. Len(emitted') :
          LET r == emitted'[k]
              key == <<r.chipid, r.channelid>>
          IN  r.pixel_trim = IF key \in DOMAIN seen.trim THEN seen.trim[key] ELSE -1]_vars

\* C10: with no skip and no limit, the output holds as many records as the
\* stream holds Data packets, whatever kind of block carries them and whatever
\* recoverable condition a packet meets.
C10_RecordPerDataPacketOfStream ==
    (pc = "done" /\ n_skip = 0 /\ n_trans = None)
        => Len(output) = seen.data_total

\* C11: when a .lpx stream ends in a word of 1 to 7 bytes, next_block reports the
\* end of the stream: it raises nothing and returns no frame made from the
\* short word.
C11_ShortWordIsEndOfStream ==
    /\ pc # "error"
    /\ \A i \in DOMAIN blocks : blocks[i].nbytes = 8


\* C12: with skip count M and limit N, every emitted record carries a frame
\* index i with M <= i, and i < N when N is set; a pass whose skip count is at
\* least the number of frames of the stream ends normally (it does not stop on
\* an error) and with an output of zero records.
C12_SkipAndLimitBoundsPassEnds ==
    /\ \A k \in DOMAIN emitted :
          /\ n_skip <= emitted[k].serialblock
          /\ n_trans # None => emitted[k].serialblock < n_trans[1]
    /\ (pc = "done" /\ n_skip >= serialblock) => Len(output) = 0
    /\ n_skip >= serialblock + 1 => pc # "error"

\* C13: a frame whose index is below the skip count leaves chip_threshold,
\* last_timestamp and the records of the output table as they were, whatever
\* packets it carries.
C13_SkippedFramesChangeNothing ==
    [][(serialblock' = serialblock + 1 /\ serialblock' < n_skip)
         => /\ chip_threshold' = chip_threshold
            /\ last_timestamp' = last_timestamp
            /\ emitted' = emitted]_vars

\* two frames skipped that carried a ConfigWrite and a Data packet
C13_Witness ==
    /\ pc = "loop" /\ n_skip = 2 /\ serialblock = 1
    /\ {"DATA", "CONFIG_WRITE"} \subseteq seen.skipped
    /\ chip_threshold = <<>> /\ last_timestamp = <<>> /\ emitted = <<>>


\* C14: a record of a Data packet whose chip the geometry does not know, whose
\* channel is off the chip's channel list, or whose channel is connected to no
\* pixel, carries -1 as pixel id, x and y; the record is emitted all the same.
C14_NoGeometryGivesMinusOne ==
    /\ \A k \in DOMAIN emitted :
          LET c == emitted[k].chipid
              ch == emitted[k].channelid
          IN  (\/ c \notin DOMAIN geometry_chips
               \/ ch + 1 > Len(geometry_chips[c])
               \/ geometry_chips[c][ch + 1].pixelid = None)
                => /\ emitted[k].pixelid = -1
                   /\ emitted[k].pixelx = -1
                   /\ emitted[k].pixely = -1
    /\ (n_skip = 0 /\ n_trans = None) => Len(emitted) = seen.data_read

\* records of an unknown chip (255), of a channel off the list (chip 1, channel 2)
\* and of an unconnected channel (chip 1, channel 1) have been emitted
C14_Witness ==
    /\ Len(emitted) = 3
    /\ \E k \in DOMAIN emitted : emitted[k].chipid = 255 /\ emitted[k].pixelid = -1
    /\ \E k \in DOMAIN emitted :
          emitted[k].chipid = 1 /\ emitted[k].channelid = 2 /\ emitted[k].pixelx = -1
    /\ \E k \in DOMAIN emitted :
          emitted[k].chipid = 1 /\ emitted[k].channelid = 1 /\ emitted[k].pixely = -1


\* C15: for every 8-bit ADC word w in 0..255, fix_ADC(w) is a 6-bit value in
\* 0..63: w with its least significant and its most significant bit dropped.
C15_FixADCIsSixBits ==
    fpc = "returned" =>
        /\ adc \in 0..63
        /\ adc = (raw_adc % 128) \div 2


\* C16: the record the ROOT sink stores for a Data packet agrees with the record
\* the flat-table sink stores, except that the tree holds the unscaled pixel x
\* and y of the geometry where the table holds them times ten, truncated: an
\* entry of a connected pixel carries the geometry's x and y (the model counts
\* them in hundredths).
C16_TreeStoresUnscaledPixel ==
    use_root =>
        \A k \in DOMAIN ttree :
            LET pixel == Pixel(ttree[k].chipid, ttree[k].channelid) IN
            pixel.pixelid # None =>
                /\ 100 * ttree[k].pixelx = pixel.x
                /\ 100 * ttree[k].pixely = pixel.y

\* the capture time of a record is negative (as a signed or as a wrapped value)
NegativeCaptureTime(r) ==
    IF use_root THEN r.cpu_timestamp[1] = 1 ELSE r.cpu_timestamp < 0

\* C17: a Data packet whose frame has a negative capture time leaves the
\* reference of every chip as it was; in particular it starts no cold start.
C17_InvalidCaptureTimeKeepsReferences ==
    [][(/\ Len(emitted') > Len(emitted)
        /\ NegativeCaptureTime(emitted'[Len(emitted')]))
         => last_timestamp' = last_timestamp]_vars

\* a record with capture time 5, then one with capture time -1 of the same chip,
\* whose reference is still the first record's timestamp
C17_Witness ==
    /\ ~use_root
    /\ Len(emitted) = 2
    /\ emitted[1].cpu_timestamp = 5 /\ emitted[2].cpu_timestamp = -1
    /\ emitted[1].chipid = 1 /\ emitted[2].chipid = 1
    /\ last_timestamp[1] = emitted[1].timestamp


\* C19: lpx_loader.prev_timestamp never decreases; it changes only in a step that
\* reads a word, and then to a non-negative value congruent to the word's
\* 10-bit timestamp; a word rejected as late (0 < prev - t < 10) leaves it as
\* it is; no other step of the pass writes it.
C19_PrevTimestampNeverDecreases ==
    [][/\ prev_timestamp' >= prev_timestamp
       /\ prev_timestamp' # prev_timestamp =>
             /\ Len(blocks') = Len(blocks) + 1
             /\ prev_timestamp' >= 0
             /\ prev_timestamp' % 1024 = blocks'[Len(blocks')].word_time
       /\ (/\ Len(blocks') = Len(blocks) + 1
           /\ prev_timestamp - blocks'[Len(blocks')].word_time > 0
           /\ prev_timestamp - blocks'[Len(blocks')].word_time < 10)
             => prev_timestamp' = prev_timestamp]_vars

\* words stamped 1005, 1000, 3: the second is rejected as late, the third rolls over
C19_Witness ==
    /\ infile_fmt = ".lpx"
    /\ Len(blocks) = 3
    /\ [i \in 1..3 |-> blocks[i].word_time] = <<1005, 1000, 3>>
    /\ prev_timestamp = 1027
    /\ last_timestamp # <<>>

\* C20: after the cold start, a Data packet of chip C with a valid capture time
\* changes the reference of C only, and the reference used for a Data packet of
\* chip C is the timestamp of the latest earlier Data packet of C with a valid
\* capture time, or the cold-start value when C had none: at any time after the
\* cold start every chip id has that reference.
C20_ReferenceIsLatestOfChip ==
    seen.cold # None =>
        \A c \in ChipIds :
            /\ c \in DOMAIN last_timestamp
            /\ last_timestamp[c] = IF c \in DOMAIN seen.own THEN seen.own[c]
                                   ELSE seen.cold[1]


\* C18: the flat table flushed at the end of the pass has exactly one row per
\* emitted record, row j holding the j-th record emitted, for every number of
\* records, 0 and the multiples of the chunk size included: each step leaves
\* the rows written so far in place, adds the rows of the Data packets of the
\* block it read behind them, in order, and the flush writes just these rows.
C18_TableHoldsTheRecordsInOrder ==
    [][~use_root =>
        /\ SubSeq(emitted', 1, Len(emitted)) = emitted
        /\ Len(emitted') - Len(emitted) = seen'.data_read - seen.data_read
        /\ \A j \in 1..(Len(emitted') - Len(emitted)) :
              /\ emitted'[Len(emitted) + j].chipid = seen'.last[j].chipid
              /\ emitted'[Len(emitted) + j].channelid = seen'.last[j].channel_id
              /\ emitted'[Len(emitted) + j].raw_timestamp = seen'.last[j].timestamp
        /\ pc' = "done" => final_array' = Some(emitted)]_vars

\* a pass ended after exactly index_limit records: the first chunk is full, the
\* second was allocated and holds no record
C18_Witness ==
    /\ pc = "done" /\ ~use_root
    /\ seen.data_read = index_limit
    /\ Len(numpy_arrays) = 2 /\ current_index = 0
    /\ Len(final_array[1]) = index_limit


\* C21: for every 8-byte word, W being the word read as a little-endian 64-bit
\* integer, extract_lpx_data returns the timestamp W div 2^54, a value in
\* 0..1023, and a payload of 7 bytes whose bits are W mod 2^54, the two high
\* bits of the last byte being zero; payload and timestamp give W back.
\* (W div 2^48 is byte 8 times 256 plus byte 7, so W div 2^54 is that div 64;
\* W mod 2^54 is bytes 1..6 and byte 7 mod 64.)
C21_WordSplitAt54 ==
    fpc = "returned" =>
        /\ lpx_timestamp = (256 * lpx_word[8] + lpx_word[7]) \div 64
        /\ lpx_timestamp \in 0..1023
        /\ Len(lpx_packet_bytes) = 7
        /\ \A k \in 1..6 : lpx_packet_bytes[k] = lpx_word[k]
        /\ lpx_packet_bytes[7] = lpx_word[7] % 64
        /\ lpx_word = SubSeq(lpx_packet_bytes, 1, 6)
                        \o << lpx_packet_bytes[7] + 64 * (lpx_timestamp % 4),
                              lpx_timestamp \div 4 >>

\* a word whose timestamp field runs over bytes 7 and 8, with payload bits below it
C21_Witness ==
    /\ fpc = "returned"
    /\ lpx_word = <<1, 2, 4, 8, 16, 160, 193, 1>>
    /\ lpx_timestamp = 7
    /\ lpx_packet_bytes = <<1, 2, 4, 8, 16, 160, 1>>

====
